---- MODULE Spec2Model ----
(***************************************************************************)
(* Model of cp_mri.mri.MRI: a read-only accessor for a pyramidal image     *)
(* kept in a ZARR store.  The store (the 'pyramid' attribute and the       *)
(* per-level arrays) is the environment; the MRI object, the call in       *)
(* progress, the open storage handles and the outcome of the last call     *)
(* are the state.                                                          *)
(*                                                                         *)
(* Numbers.  Python ints are TLA+ integers.  A real number of the store    *)
(* (a JSON float) is a pair <<num, den>>.  A value handed back to the      *)
(* caller is a record [k, num, den]: k = "int" for an integer, "float" for *)
(* a finite numpy.float64 (kept as an exact fraction in lowest terms),     *)
(* "inf" (num = sign) and "nan" for the IEEE results of a division by 0.   *)
(***************************************************************************)
EXTENDS Integers, Sequences, FiniteSets, TLC

\* ------------------------------------------------------------------ bounds
MaxOff == 1        \* rectangle origins are drawn from -MaxOff..MaxOff
MaxBorder == 1     \* borders are drawn from 0..MaxBorder
MaxPt == 1         \* point coordinates are drawn from 0..MaxPt (and the spec's example)

\* ------------------------------------------------------------- arithmetic
Abs(n) == IF n < 0 THEN -n ELSE n

Sign(n) == IF n < 0 THEN -1 ELSE IF n > 0 THEN 1 ELSE 0

Max(a, b) == IF a >= b THEN a ELSE b

Min(a, b) == IF a <= b THEN a ELSE b

RECURSIVE GCD(_, _)
GCD(a, b) == IF b = 0 THEN a ELSE GCD(b, a % b)

\* truncation toward zero of the fraction num/den (den > 0): Python int(),
\* and numpy's cast of a float stored into an integer array
TruncDiv(num, den) == IF num >= 0 THEN num \div den ELSE -((-num) \div den)

PyInt(v) == [k |-> "int", num |-> v, den |-> 1]

Fraction(n, d) ==
    LET g == GCD(Abs(n), Abs(d))
    IN  [k |-> "float", num |-> Sign(d) * (n \div g), den |-> Abs(d) \div g]

NaN == [k |-> "nan", num |-> 0, den |-> 0]

Inf(s) == [k |-> "inf", num |-> s, den |-> 0]

\* numpy.int64 / numpy.int64: true division giving a float64; a zero
\* divisor gives inf or nan (a warning, not an exception)
TrueDivide(a, b) ==
    IF b # 0 THEN Fraction(a, b)
    ELSE IF a = 0 THEN NaN ELSE Inf(Sign(a))

\* Python int * numpy.float64
IntTimesFloat(x, f) ==
    CASE f.k = "float" -> Fraction(x * f.num, f.den)
      [] f.k = "inf"   -> IF x = 0 THEN NaN ELSE Inf(Sign(x) * f.num)
      [] OTHER         -> NaN

\* numpy indexing of an axis of length n with the integer idx: a negative
\* index counts from the end; -1 stands for IndexError
NpIndex(idx, n) ==
    IF idx >= 0 /\ idx < n THEN idx
    ELSE IF idx < 0 /\ idx >= -n THEN idx + n
    ELSE -1

\* ------------------------------------------------------------- the store
\* A store: the 'pyramid' attribute (a sequence of records, or absent) and
\* the arrays kept under the level keys, each with its (height, width).
LevelEntry(l, w, h, f) == [level |-> l, width |-> w, height |-> h, downsample_factor |-> f]

Plane(h, w) == [height |-> h, width |-> w]

Stores == [
  \* well formed, integer factors (the spec's example pyramid, scaled down)
  ok_int   |-> [has_pyramid |-> TRUE,
                pyramid |-> << LevelEntry(0, 6, 5, <<1, 1>>), LevelEntry(1, 3, 3, <<2, 1>>) >>,
                planes  |-> [k \in {0, 1} |-> IF k = 0 THEN Plane(5, 6) ELSE Plane(3, 3)]],
  \* well formed, records not in level order, a non-integer factor 5/2
  ok_real  |-> [has_pyramid |-> TRUE,
                pyramid |-> << LevelEntry(1, 2, 2, <<5, 2>>), LevelEntry(0, 5, 4, <<1, 1>>) >>,
                planes  |-> [k \in {0, 1} |-> IF k = 0 THEN Plane(4, 5) ELSE Plane(2, 2)]],
  \* well formed, a factor 1/2 below one
  ok_half  |-> [has_pyramid |-> TRUE,
                pyramid |-> << LevelEntry(0, 2, 2, <<1, 2>>), LevelEntry(1, 1, 1, <<1, 1>>) >>,
                planes  |-> [k \in {0, 1} |-> IF k = 0 THEN Plane(2, 2) ELSE Plane(1, 1)]],
  \* no 'pyramid' attribute
  absent   |-> [has_pyramid |-> FALSE,
                pyramid |-> << >>,
                planes  |-> [k \in {0} |-> Plane(2, 2)]],
  \* level 0 twice, level 1 never
  dup      |-> [has_pyramid |-> TRUE,
                pyramid |-> << LevelEntry(0, 4, 4, <<1, 1>>), LevelEntry(0, 2, 2, <<2, 1>>) >>,
                planes  |-> [k \in {0} |-> Plane(4, 4)]],
  \* level 1 skipped
  skip     |-> [has_pyramid |-> TRUE,
                pyramid |-> << LevelEntry(0, 4, 4, <<1, 1>>), LevelEntry(2, 1, 1, <<4, 1>>) >>,
                planes  |-> [k \in {0, 2} |-> IF k = 0 THEN Plane(4, 4) ELSE Plane(1, 1)]],
  \* a record without 'width'
  nowidth  |-> [has_pyramid |-> TRUE,
                pyramid |-> << LevelEntry(0, 4, 4, <<1, 1>>),
                               [level |-> 1, height |-> 2, downsample_factor |-> <<2, 1>>] >>,
                planes  |-> [k \in {0, 1} |-> IF k = 0 THEN Plane(4, 4) ELSE Plane(2, 2)]],
  \* a record without 'downsample_factor'
  nofactor |-> [has_pyramid |-> TRUE,
                pyramid |-> << [level |-> 0, width |-> 4, height |-> 4],
                               LevelEntry(1, 2, 2, <<2, 1>>) >>,
                planes  |-> [k \in {0, 1} |-> IF k = 0 THEN Plane(4, 4) ELSE Plane(2, 2)]],
  \* a width of zero
  nonpos   |-> [has_pyramid |-> TRUE,
                pyramid |-> << LevelEntry(0, 4, 4, <<1, 1>>), LevelEntry(1, 0, 2, <<2, 1>>) >>,
                planes  |-> [k \in {0, 1} |-> IF k = 0 THEN Plane(4, 4) ELSE Plane(2, 0)]]
]

StoreNames == DOMAIN Stores

\* the sample stored at row i, column j, channel c of the array of a level;
\* the stored samples are 16-bit and all of them exceed the uint8 range
StoredSample(level, i, j, c) == 300 + 100 * level + 37 * i + 11 * j + 5 * c

VARIABLES
    store,      \* name of the store at `path`
    rank,       \* number of axes of the stored arrays: 2, or 3 (trailing channel axis)
    nchan,      \* length of the channel axis (rank 3)
    obj,        \* the MRI object: [state, exc, levels (<<width, height>> per level), factors]
    pc,         \* position of the call in progress: "idle", or inside a with-block
    frame,      \* the call in progress or last made: operation, arguments, locals
    handles,    \* storage handles currently open
    acquired,   \* storage handles opened since the call in `frame` started
    ret         \* outcome of the last completed call

vars == << store, rank, nchan, obj, pc, frame, handles, acquired, ret >>

NoObj == [state |-> "none", exc |-> "", levels |-> << >>, factors |-> << >>]

NoFrame == [op |-> "none"]

NoRet == [kind |-> "none"]

Raise(exc, msg) == [kind |-> "raise", exc |-> exc, msg |-> msg]

Return(v) == [kind |-> "return", val |-> v]

Init ==
    /\ store \in StoreNames
    /\ rank \in {2, 3}
    /\ nchan \in {1, 3}
    /\ rank = 2 => nchan = 1
    /\ obj = NoObj
    /\ pc = "idle"
    /\ frame = NoFrame
    /\ handles = 0
    /\ acquired = 0
    /\ ret = NoRet

\* ------------------------------------------------------------ MRI.__init__
\* One pass of the loop body of __init__ over the record p, on the arrays
\* acc = [exc, levels, factors].  levels[n] is <<width, height>> of column
\* n-1 of _pyramid_levels, factors[n] is _downsample_factors[n-1].
InitRecord(acc, p) ==
    IF acc.exc # "" THEN acc
    ELSE IF ~ ({"width", "height", "level"} \subseteq DOMAIN p)
         THEN [acc EXCEPT !.exc = "KeyError"]
    ELSE IF NpIndex(p.level, Len(acc.levels)) = -1
         THEN [acc EXCEPT !.exc = "IndexError"]
    ELSE LET n == NpIndex(p.level, Len(acc.levels)) + 1
             a1 == [acc EXCEPT !.levels[n] = << p.width, p.height >>]
         IN  IF "downsample_factor" \notin DOMAIN p
             THEN [a1 EXCEPT !.exc = "KeyError"]
             ELSE [a1 EXCEPT !.factors[n] =
                       TruncDiv(p.downsample_factor[1], p.downsample_factor[2])]

RECURSIVE InitLoop(_, _, _)
InitLoop(acc, pyramid, n) ==
    IF n > Len(pyramid) THEN acc
    ELSE InitLoop(InitRecord(acc, pyramid[n]), pyramid, n + 1)

\* the object __init__ leaves behind for the store st
Construct(st) ==
    IF ~ st.has_pyramid
    THEN [state |-> "failed", exc |-> "KeyError", levels |-> << >>, factors |-> << >>]
    ELSE LET N == Len(st.pyramid)
             zeros == [exc |-> "", levels |-> [n \in 1 .. N |-> << 0, 0 >>],
                       factors |-> [n \in 1 .. N |-> 0]]
             r == InitLoop(zeros, st.pyramid, 1)
         IN  IF r.exc # ""
             THEN [state |-> "failed", exc |-> r.exc, levels |-> << >>, factors |-> << >>]
             ELSE [state |-> "ready", exc |-> "", levels |-> r.levels, factors |-> r.factors]

MRI_init ==
    /\ obj.state = "none"
    /\ obj' = Construct(Stores[store])
    /\ UNCHANGED << store, rank, nchan, pc, frame, handles, acquired, ret >>

\* ------------------------------------------------------- PyramidIndex part
nlevels == Len(obj.levels)

widths(level) == obj.levels[level + 1][1]

heights(level) == obj.levels[level + 1][2]

\* level arguments: -1, the levels of a two-level pyramid, and its level count
LevelArgs == -1 .. 2

\* MRI.extent
extent(level) ==
    IF NpIndex(level, nlevels) = -1 THEN Raise("IndexError", "index out of bounds")
    ELSE Return(<< PyInt(obj.levels[NpIndex(level, nlevels) + 1][1]),
                   PyInt(obj.levels[NpIndex(level, nlevels) + 1][2]) >>)

\* MRI.between_level_scaling_factor
between_level_scaling_factor(from_level, to_level) ==
    IF NpIndex(from_level, nlevels) = -1 \/ NpIndex(to_level, nlevels) = -1
    THEN Raise("IndexError", "index out of bounds")
    ELSE Return(TrueDivide(obj.factors[NpIndex(from_level, nlevels) + 1],
                           obj.factors[NpIndex(to_level, nlevels) + 1]))

\* convert_px with the products rounded (truncated) to whole pixels
Rounded(f) == IF f.k = "float" THEN PyInt(TruncDiv(f.num, f.den)) ELSE f

convert_px_rounded(point, from_level, to_level) ==
    IF from_level = to_level
    THEN Return(<< PyInt(point[1]), PyInt(point[2]) >>)
    ELSE LET f == between_level_scaling_factor(from_level, to_level)
         IN  IF f.kind = "raise" THEN f
             ELSE Return(<< Rounded(IntTimesFloat(point[1], f.val)),
                            Rounded(IntTimesFloat(point[2], f.val)) >>)

\* MRI.convert_px
convert_px(point, from_level, to_level) ==
    IF from_level = to_level
    THEN Return(<< PyInt(point[1]), PyInt(point[2]) >>)
    ELSE LET f == between_level_scaling_factor(from_level, to_level)
         IN  IF f.kind = "raise" THEN f
             ELSE Return(<< IntTimesFloat(point[1], f.val), IntTimesFloat(point[2], f.val) >>)

Ready == obj.state = "ready" /\ pc = "idle"

Extent ==
    /\ Ready
    /\ \E level \in LevelArgs :
         /\ frame' = [op |-> "extent", level |-> level]
         /\ ret' = extent(level)
    /\ acquired' = 0
    /\ UNCHANGED << store, rank, nchan, obj, pc, handles >>

BetweenLevelScalingFactor ==
    /\ Ready
    /\ \E from_level \in LevelArgs, to_level \in LevelArgs :
         /\ frame' = [op |-> "scaling", from_level |-> from_level, to_level |-> to_level]
         /\ ret' = between_level_scaling_factor(from_level, to_level)
    /\ acquired' = 0
    /\ UNCHANGED << store, rank, nchan, obj, pc, handles >>

PointArgs == ((0 .. MaxPt) \X (0 .. MaxPt)) \cup {<< 100, 200 >>}

ConvertPx ==
    /\ Ready
    /\ \E point \in PointArgs, from_level \in LevelArgs, to_level \in LevelArgs :
         /\ frame' = [op |-> "convert", point |-> point,
                      from_level |-> from_level, to_level |-> to_level]
         /\ ret' = convert_px(point, from_level, to_level)
    /\ acquired' = 0
    /\ UNCHANGED << store, rank, nchan, obj, pc, handles >>

\* ------------------------------------------------------------ RegionReader
PixelTypes == {"uint8", "uint16"}

Bits(as_type) == IF as_type = "uint8" THEN 8 ELSE 16

\* numpy.array(block, dtype=as_type) on a block of wider integers: the
\* sample is reduced modulo 2^bits
Cast(v, as_type) == v % (2 ^ Bits(as_type))

\* slice(start, stop).indices(n): Python's normalisation of a slice bound
SliceBound(a, n) == IF a < 0 THEN Max(a + n, 0) ELSE Min(a, n)

\* the level and bounds checks of get_region_px: the exception raised, or
\* NoRet when the checks pass
region_checks(x0, y0, width, height, level) ==
    IF level < 0 \/ level >= nlevels
    THEN Raise("RuntimeError", "requested level does not exist")
    ELSE IF \/ x0 >= widths(level)
            \/ y0 >= heights(level)
            \/ x0 + width > widths(level)
            \/ y0 + height > heights(level)
         THEN Raise("RuntimeError", "region out of layer's extent")
         ELSE NoRet

\* zarr_root[str(level)][y0:y0 + height, x0:x0 + width, :] as as_type
region_block(x0, y0, width, height, level, as_type) ==
    IF level \notin DOMAIN Stores[store].planes
    THEN Raise("KeyError", "no such array")
    ELSE IF rank = 2
    THEN Raise("IndexError", "too many indices for array")
    ELSE LET pl == Stores[store].planes[level]
             r0 == SliceBound(y0, pl.height)
             r1 == SliceBound(y0 + height, pl.height)
             c0 == SliceBound(x0, pl.width)
             c1 == SliceBound(x0 + width, pl.width)
             h  == Max(0, r1 - r0)
             w  == Max(0, c1 - c0)
         IN  Return([shape |-> << h, w, nchan >>, dtype |-> as_type,
                     data |-> [i \in 1 .. h |-> [j \in 1 .. w |-> [c \in 1 .. nchan |->
                         Cast(StoredSample(level, r0 + i - 1, c0 + j - 1, c - 1), as_type)]]]])

\* zarr_root[str(level)][...] as as_type
plane_block(level, as_type) ==
    IF level \notin DOMAIN Stores[store].planes
    THEN Raise("KeyError", "no such array")
    ELSE LET pl == Stores[store].planes[level]
         IN  IF rank = 2
             THEN Return([shape |-> << pl.height, pl.width >>, dtype |-> as_type,
                          data |-> [i \in 1 .. pl.height |-> [j \in 1 .. pl.width |->
                              << Cast(StoredSample(level, i - 1, j - 1, 0), as_type) >>]]])
             ELSE Return([shape |-> << pl.height, pl.width, nchan >>, dtype |-> as_type,
                          data |-> [i \in 1 .. pl.height |-> [j \in 1 .. pl.width |->
                              [c \in 1 .. nchan |->
                                  Cast(StoredSample(level, i - 1, j - 1, c - 1), as_type)]]]])

OffsetArgs == (-MaxOff) .. MaxOff

\* sizes asked for: a single pixel ("unit"), or the whole extent of the level
SizeArgs == {"unit", "full"}

WidthArg(size, level) ==
    IF size = "full" /\ level >= 0 /\ level < nlevels THEN widths(level) ELSE 1

HeightArg(size, level) ==
    IF size = "full" /\ level >= 0 /\ level < nlevels THEN heights(level) ELSE 1

\* get_region_px up to the entry of its with-block
GetRegionPx ==
    /\ Ready
    /\ \E level \in LevelArgs, as_type \in PixelTypes, x0 \in OffsetArgs, y0 \in OffsetArgs,
          size \in SizeArgs :
         LET width  == WidthArg(size, level)
             height == HeightArg(size, level)
             chk    == region_checks(x0, y0, width, height, level)
         IN  /\ frame' = [op |-> "region", x0 |-> x0, y0 |-> y0, width |-> width,
                          height |-> height, level |-> level, as_type |-> as_type]
             /\ IF chk.kind = "raise"
                THEN /\ ret' = chk
                     /\ acquired' = 0
                     /\ UNCHANGED << pc, handles >>
                ELSE /\ ret' = NoRet
                     /\ pc' = "region_with"
                     /\ handles' = handles + 1
                     /\ acquired' = 1
    /\ UNCHANGED << store, rank, nchan, obj >>

\* the with-block of get_region_px and its exit
GetRegionPxRead ==
    /\ pc = "region_with"
    /\ ret' = region_block(frame.x0, frame.y0, frame.width, frame.height,
                           frame.level, frame.as_type)
    /\ handles' = handles - 1
    /\ pc' = "idle"
    /\ UNCHANGED << store, rank, nchan, obj, frame, acquired >>

\* get_plane up to the entry of its with-block
GetPlane ==
    /\ Ready
    /\ \E level \in LevelArgs, as_type \in PixelTypes :
         /\ frame' = [op |-> "plane", level |-> level, as_type |-> as_type]
         /\ IF level < 0 \/ level >= nlevels
            THEN /\ ret' = Raise("RuntimeError", "requested level does not exist")
                 /\ acquired' = 0
                 /\ UNCHANGED << pc, handles >>
            ELSE /\ ret' = NoRet
                 /\ pc' = "plane_with"
                 /\ handles' = handles + 1
                 /\ acquired' = 1
    /\ UNCHANGED << store, rank, nchan, obj >>

\* the with-block of get_plane and its exit
GetPlaneRead ==
    /\ pc = "plane_with"
    /\ ret' = plane_block(frame.level, frame.as_type)
    /\ handles' = handles - 1
    /\ pc' = "idle"
    /\ UNCHANGED << store, rank, nchan, obj, frame, acquired >>

\* ------------------------------------------------- polygon-masked reads
\* A contour is the sequence of its vertices, each << 2x, 2y >>: coordinates
\* are kept in half pixels, so that a vertex may lie between two pixels.
\* The contours are convex.
Contours == [
  \* the spec's triangle (10,10),(50,10),(10,50), scaled down: (1,1),(5,1),(1,5)
  tri  |-> << << 2, 2 >>, << 10, 2 >>, << 2, 10 >> >>,
  \* a square to the right of every extent: (7,1),(9,1),(9,3),(7,3)
  out  |-> << << 14, 2 >>, << 18, 2 >>, << 18, 6 >>, << 14, 6 >> >>,
  \* a triangle left of and above the origin: (-3,-3),(-1,-3),(-3,-1)
  neg  |-> << << -6, -6 >>, << -2, -6 >>, << -6, -2 >> >>,
  \* (-0.5,-0.5),(1.5,-0.5),(1.5,2.5),(-0.5,2.5): pixels (0,0),(0,1),(0,2) inside
  half |-> << << -1, -1 >>, << 3, -1 >>, << 3, 5 >>, << -1, 5 >> >>,
  \* (0,0),(1.5,0),(1.5,2.5),(0,2.5): pixels (0,0),(0,1),(0,2) on the boundary
  edge |-> << << 0, 0 >>, << 3, 0 >>, << 3, 5 >>, << 0, 5 >> >>
]

ContourNames == DOMAIN Contours

RECURSIVE SeqMin(_, _, _)
SeqMin(s, k, n) == IF n = Len(s) THEN s[n][k] ELSE Min(s[n][k], SeqMin(s, k, n + 1))

RECURSIVE SeqMax(_, _, _)
SeqMax(s, k, n) == IF n = Len(s) THEN s[n][k] ELSE Max(s[n][k], SeqMax(s, k, n + 1))

\* [int(_z) for _z in contour.bounds]: (minx, miny, maxx, maxy), truncated
IntBounds(contour) ==
    << TruncDiv(SeqMin(contour, 1, 1), 2), TruncDiv(SeqMin(contour, 2, 1), 2),
       TruncDiv(SeqMax(contour, 1, 1), 2), TruncDiv(SeqMax(contour, 2, 1), 2) >>

\* shapely.affinity.translate(contour, dx, dy), dx and dy in pixels
translate(contour, dx, dy) ==
    [n \in DOMAIN contour |-> << contour[n][1] + 2 * dx, contour[n][2] + 2 * dy >>]

\* (b - a) x (p - a)
Cross(a, b, p) == (b[1] - a[1]) * (p[2] - a[2]) - (b[2] - a[2]) * (p[1] - a[1])

EdgeSides(contour, x, y) ==
    { Sign(Cross(contour[n], contour[(n % Len(contour)) + 1], << 2 * x, 2 * y >>)) :
        n \in DOMAIN contour }

\* shapely: Point(x, y).within(contour) - the point lies in the interior of
\* the polygon; a point of the boundary is not within it
within(x, y, contour) == EdgeSides(contour, x, y) \in { {1}, {-1} }

\* the rectangle get_polygonal_region_px asks get_region_px for
contour_rect(contour, level, border, ext) ==
    LET b  == IntBounds(contour)
        x0 == Max(0, b[1] - border)
        y0 == Max(0, b[2] - border)
        x1 == Min(b[3] + border, ext[1].num)
        y1 == Min(b[4] + border, ext[2].num)
    IN  [x0 |-> x0, y0 |-> y0, width |-> x1 - x0, height |-> y1 - y0]

\* the masking loop: img[i,] = img[i,] * lm for every row i, lm[j] = 1 for
\* the columns j with Point(j, i) within the contour.  img[i,] has the shape
\* (W, C) and lm the shape (W,): numpy aligns lm with the LAST axis of the
\* row, so the product exists only if W = 1 or W = C, and lm then selects
\* channels unless W = 1.
mask(img, contour) ==
    LET H == img.shape[1]
        W == img.shape[2]
        C == img.shape[3]
        lm(i, j) == IF within(j - 1, i - 1, contour) THEN 1 ELSE 0
    IN  IF H = 0 THEN Return(img)
        ELSE IF W = 1
        THEN Return([img EXCEPT !.data = [i \in 1 .. H |-> [j \in 1 .. W |-> [c \in 1 .. C |->
                         img.data[i][j][c] * lm(i, 1)]]]])
        ELSE IF W = C
        THEN Return([img EXCEPT !.data = [i \in 1 .. H |-> [j \in 1 .. W |-> [c \in 1 .. C |->
                         img.data[i][j][c] * lm(i, c)]]]])
        ELSE Raise("ValueError", "operands could not be broadcast together")

BorderArgs == 0 .. MaxBorder

\* get_polygonal_region_px up to the entry of the with-block of get_region_px
GetPolygonalRegionPx ==
    /\ Ready
    /\ \E name \in ContourNames, level \in LevelArgs, border \in BorderArgs,
          as_type \in PixelTypes :
       \E ext \in {extent(level)} :
         IF ext.kind = "raise"
         THEN /\ frame' = [op |-> "poly", contour |-> Contours[name], level |-> level,
                           border |-> border, as_type |-> as_type]
              /\ ret' = ext
              /\ acquired' = 0
              /\ UNCHANGED << pc, handles >>
         ELSE \E r \in {contour_rect(Contours[name], level, border, ext.val)} :
              \E chk \in {region_checks(r.x0, r.y0, r.width, r.height, level)} :
                /\ frame' = [op |-> "poly", contour |-> Contours[name], level |-> level,
                             border |-> border, as_type |-> as_type,
                             x0 |-> r.x0, y0 |-> r.y0, width |-> r.width, height |-> r.height,
                             shifted |-> translate(Contours[name], -r.x0, -r.y0)]
                /\ IF chk.kind = "raise"
                   THEN /\ ret' = chk
                        /\ acquired' = 0
                        /\ UNCHANGED << pc, handles >>
                   ELSE /\ ret' = NoRet
                        /\ pc' = "poly_with"
                        /\ handles' = handles + 1
                        /\ acquired' = 1
    /\ UNCHANGED << store, rank, nchan, obj >>

\* the with-block of the get_region_px call made by get_polygonal_region_px,
\* its exit, and the masking loop
GetPolygonalRegionPxRead ==
    /\ pc = "poly_with"
    /\ LET img == region_block(frame.x0, frame.y0, frame.width, frame.height,
                               frame.level, "uint8")
       IN  ret' = IF img.kind = "raise" THEN img ELSE mask(img.val, frame.shifted)
    /\ handles' = handles - 1
    /\ pc' = "idle"
    /\ UNCHANGED << store, rank, nchan, obj, frame, acquired >>

Next ==
    \/ MRI_init
    \/ Extent
    \/ BetweenLevelScalingFactor
    \/ ConvertPx
    \/ GetRegionPx
    \/ GetRegionPxRead
    \/ GetPlane
    \/ GetPlaneRead
    \/ GetPolygonalRegionPx
    \/ GetPolygonalRegionPxRead

Spec == Init /\ [][Next]_vars

\* ------------------------------------------------------------- properties
\* The code has one exception class for both of its own checks
\* (RuntimeError); the two are told apart by their message.
InvalidLevelError == Raise("RuntimeError", "requested level does not exist")

OutOfBoundsError == Raise("RuntimeError", "region out of layer's extent")

Fields == {"level", "width", "height", "downsample_factor"}

\* what the spec calls a well-formed descriptor: present, every record with
\* its four fields, the level indices exactly 0..N-1, positive dimensions
WellFormed(st) ==
    /\ st.has_pyramid
    /\ \A n \in DOMAIN st.pyramid : Fields \subseteq DOMAIN st.pyramid[n]
    /\ \A n \in DOMAIN st.pyramid : st.pyramid[n].width > 0 /\ st.pyramid[n].height > 0
    /\ {st.pyramid[n].level : n \in DOMAIN st.pyramid} = 0 .. (Len(st.pyramid) - 1)
    /\ \A m, n \in DOMAIN st.pyramid : m # n => st.pyramid[m].level # st.pyramid[n].level

\* the point lies in the polygon or on its boundary
covered(x, y, contour) ==
    EdgeSides(contour, x, y) \subseteq {0, 1} \/ EdgeSides(contour, x, y) \subseteq {0, -1}

ValidLevel(level) == level >= 0 /\ level < nlevels

\* the call of operation op has returned or raised
Completed(op) == frame.op = op /\ pc = "idle"

\* the object was built from a store that honours the storage contract
SoundStore == obj.state = "ready" /\ WellFormed(Stores[store])

\* the preconditions the spec gives readRegion for the rectangle
InExtent(x0, y0, width, height, level) ==
    /\ x0 >= 0
    /\ y0 >= 0
    /\ x0 + width <= widths(level)
    /\ y0 + height <= heights(level)

\* C1: for a valid level, a get_region_px call whose rectangle has a negative
\* origin or reaches beyond the extent of the level fails with the
\* out-of-bounds error, which differs from the invalid-level error.
C1_RegionOutOfBounds ==
    (Completed("region") /\ SoundStore /\ rank = 3 /\ ValidLevel(frame.level)
       /\ ~ InExtent(frame.x0, frame.y0, frame.width, frame.height, frame.level))
    => (ret = OutOfBoundsError /\ ret # InvalidLevelError)

\* C2: no operation that takes a level returns a value when a level it is
\* given lies outside [0, levelCount()): it fails.  (Stated without the class
\* of the failure, which the code does not have: any exception counts.)
C2_InvalidLevelFails ==
    /\ (frame.op \in {"extent", "region", "plane", "poly"} /\ pc = "idle" /\ SoundStore
          /\ ~ ValidLevel(frame.level))
       => ret.kind = "raise"
    /\ (Completed("scaling") /\ SoundStore
          /\ (~ ValidLevel(frame.from_level) \/ ~ ValidLevel(frame.to_level)))
       => ret.kind = "raise"

\* C3: for a valid level and a stored plane of rank 2 or 3, the read of the
\* rectangle (0, 0, width of the level, height of the level) with pixel type t
\* gives what get_plane gives for that level and t: same shape, same samples.
C3_FullRegionIsPlane ==
    (Completed("region") /\ SoundStore /\ ValidLevel(frame.level)
       /\ frame.x0 = 0 /\ frame.y0 = 0
       /\ frame.width = widths(frame.level) /\ frame.height = heights(frame.level))
    => ret = plane_block(frame.level, frame.as_type)

\* the downsample factor the descriptor of the store gives for a level
DescriptorFactor(level) ==
    LET py == Stores[store].pyramid
    IN  py[CHOOSE n \in DOMAIN py : py[n].level = level].downsample_factor

\* C4: for valid levels a and b of a descriptor with positive real factors,
\* between_level_scaling_factor(a, b) is factor[a] / factor[b] of the
\* descriptor, and it is exactly 1.0 when a = b.
C4_ScalingFactorIsRatio ==
    (Completed("scaling") /\ SoundStore
       /\ ValidLevel(frame.from_level) /\ ValidLevel(frame.to_level))
    => LET fa == DescriptorFactor(frame.from_level)
           fb == DescriptorFactor(frame.to_level)
       IN  /\ ret = Return(Fraction(fa[1] * fb[2], fa[2] * fb[1]))
           /\ frame.from_level = frame.to_level => ret = Return(Fraction(1, 1))

\* r is the float x * f, not rounded
IsProduct(r, x, f) ==
    CASE f.k = "float" -> r.k = "float" /\ r.den > 0 /\ r.num * f.den = x * f.num * r.den
      [] f.k = "inf"   -> r = (IF x = 0 THEN NaN ELSE Inf(Sign(x) * f.num))
      [] OTHER         -> r.k = "nan"

\* C5: convert_px gives the point back unchanged when the two levels are the
\* same, and otherwise both coordinates multiplied by
\* between_level_scaling_factor(from, to), not rounded; with the factors 1 and
\* 2 for the levels 0 and 1, (100, 200) at level 0 is (50.0, 100.0) at level 1.
C5_ConvertPoint ==
    Completed("convert") =>
        LET x == frame.point[1]
            y == frame.point[2]
            f == between_level_scaling_factor(frame.from_level, frame.to_level)
        IN  /\ frame.from_level = frame.to_level
                 => ret = Return(<< PyInt(x), PyInt(y) >>)
            /\ (frame.from_level # frame.to_level /\ f.kind = "raise")
                 => ret.kind = "raise"
            /\ (frame.from_level # frame.to_level /\ f.kind = "return")
                 => /\ ret.kind = "return"
                    /\ IsProduct(ret.val[1], x, f.val)
                    /\ IsProduct(ret.val[2], y, f.val)
            /\ (obj.factors = << 1, 2 >> /\ frame.point = << 100, 200 >>
                  /\ frame.from_level = 0 /\ frame.to_level = 1)
                 => ret = Return(<< Fraction(50, 1), Fraction(100, 1) >>)

\* the spec's example conversion has been made
C5_Witness ==
    /\ Completed("convert")
    /\ obj.factors = << 1, 2 >>
    /\ frame.point = << 100, 200 >> /\ frame.from_level = 0 /\ frame.to_level = 1
    /\ ret = Return(<< Fraction(50, 1), Fraction(100, 1) >>)

\* C6: __init__ fails whenever the 'pyramid' descriptor is absent or
\* malformed: no object is built from such a descriptor.
C6_MalformedDescriptorRejected ==
    (obj.state # "none" /\ ~ WellFormed(Stores[store])) => obj.state = "failed"

\* C7: in the buffer get_polygonal_region_px returns, the pixel at row i,
\* column j is zero in every channel when the point (j, i) is not in the
\* shifted polygon, and keeps the value of the rectangular read when it is in
\* the polygon or on its boundary.
C7_MaskKeepsCoveredPixels ==
    (Completed("poly") /\ SoundStore /\ ValidLevel(frame.level) /\ ret.kind = "return")
    => LET img == region_block(frame.x0, frame.y0, frame.width, frame.height,
                               frame.level, ret.val.dtype).val
       IN  \A i \in 1 .. ret.val.shape[1], j \in 1 .. ret.val.shape[2] :
             IF covered(j - 1, i - 1, frame.shifted)
             THEN ret.val.data[i][j] = img.data[i][j]
             ELSE \A c \in 1 .. ret.val.shape[3] : ret.val.data[i][j][c] = 0

Clamp(v, lo, hi) == Min(Max(v, lo), hi)

\* C8: for a valid level, the rectangle get_polygonal_region_px hands to
\* get_region_px is the integer bounding box of the polygon, grown by border
\* on its four sides and clamped to [0, width] x [0, height] of the level; its
\* origin and its size are not negative; the buffer returned has the height
\* and the width of that rectangle.
C8_ClampedBoundingRectangle ==
    (frame.op = "poly" /\ SoundStore /\ ValidLevel(frame.level))
    => LET b  == IntBounds(frame.contour)
           cx0 == Clamp(b[1] - frame.border, 0, widths(frame.level))
           cy0 == Clamp(b[2] - frame.border, 0, heights(frame.level))
           cx1 == Clamp(b[3] + frame.border, 0, widths(frame.level))
           cy1 == Clamp(b[4] + frame.border, 0, heights(frame.level))
       IN  /\ frame.x0 = cx0 /\ frame.y0 = cy0
           /\ frame.width = cx1 - cx0 /\ frame.height = cy1 - cy0
           /\ frame.x0 >= 0 /\ frame.y0 >= 0 /\ frame.width >= 0 /\ frame.height >= 0
           /\ (pc = "idle" /\ ret.kind = "return")
                => (ret.val.shape[1] = frame.height /\ ret.val.shape[2] = frame.width)

\* the preconditions the spec gives the read in `frame`
ReadPreconditions ==
    /\ ValidLevel(frame.level)
    /\ frame.op \in {"region", "poly"}
         => InExtent(frame.x0, frame.y0, frame.width, frame.height, frame.level)

\* the storage handle is opened after the checks the code makes, at most once
\* per read, and no handle is open between two calls
HandleScoped ==
    /\ handles \in {0, 1}
    /\ acquired <= 1
    /\ handles = 1 <=> pc # "idle"
    /\ acquired = 1 => /\ frame.op \in {"region", "plane", "poly"}
                       /\ ValidLevel(frame.level)
                       /\ frame.op \in {"region", "poly"}
                            => region_checks(frame.x0, frame.y0, frame.width, frame.height,
                                             frame.level) = NoRet

\* C9: a read that fails one of its preconditions never opens the storage;
\* the handle is opened at most once per read and no handle is open once the
\* call has ended.
C9_StorageOnlyAfterPreconditions ==
    /\ pc = "idle" => handles = 0
    /\ acquired <= 1
    /\ (acquired > 0 /\ SoundStore) => ReadPreconditions

\* C10: the buffer get_polygonal_region_px returns for the pixel type t has
\* samples of type t: it is the masked get_region_px read of the same
\* rectangle made with t.
C10_PolygonReadHonoursPixelType ==
    (Completed("poly") /\ SoundStore /\ ValidLevel(frame.level) /\ ret.kind = "return")
    => /\ ret.val.dtype = frame.as_type
       /\ ret = mask(region_block(frame.x0, frame.y0, frame.width, frame.height,
                                  frame.level, frame.as_type).val, frame.shifted)


====
